---------------------------- MODULE Spec2Model ----------------------------
(***************************************************************************)
(* DriftDetector: the drift service (src/src/serving/drift_service.py),    *)
(* its report parser, the collection scheduler                             *)
(* (src/src/data/scheduler.py) and the ingestion pipeline                  *)
(* (src/src/data/ingestion.py) as state machines.                          *)
(*                                                                         *)
(* Scores are kept in tenths: DRIFT_THRESHOLD 0.3 is 3.                    *)
(***************************************************************************)
EXTENDS Integers, Sequences, FiniteSets, TLC

VARIABLES
    \* ---- drift_service.py: module globals and sinks
    reference_data,          \* global reference_data (None modelled as NoFrame)
    current_drift_report,    \* global current_drift_report (None as NoReport)
    last_drift_check,        \* global last_drift_check (0 = None)
    DRIFT_SCORE_GAUGE,       \* gauge data_drift_score, one value per feature label
    FEATURES_DRIFTED_GAUGE,  \* gauge features_with_drift
    DRIFT_DETECTED_COUNTER,  \* counter drift_detections_total
    alert_file,              \* number of lines appended to drift_alerts.jsonl
    evidently_runs,          \* number of report.run(...) invocations
    evidently_shape,         \* what the installed Evidently puts in as_dict()
    \* ---- drift_service.py: the event loop
    periodic_pc,             \* position of the periodic_drift_check task
    running,                 \* coroutine holding the loop: 0 none, -1 periodic, r
    periodic_errors,         \* "Error in periodic drift check" lines printed
    pc,                      \* pc[r]: position of request r's handler coroutine
    cur,                     \* cur[r]: current_df of request r's handler
    ref_df,                  \* ref_df[r]: local ref_df of request r's handler
    last,                    \* the last completed calculate_drift call
    bootstrap_batch,         \* the batch that became the reference (NoFrame: none)
    \* ---- parse_drift_report called on its own
    report_dict, feature_cols, parsed,
    \* ---- load_recent_predictions called on its own
    log_file,                \* today's predictions_<date>.jsonl
    loaded,                  \* the frame load_recent_predictions returned
    \* ---- scheduler.py
    total_readings,          \* ContinuousDataCollector.total_readings
    last_collection,         \* ContinuousDataCollector.last_collection (-1 = None)
    github_token,            \* whether GITHUB_TOKEN is set in the environment
    sched_pc,                \* position of run_scheduler / collect_hourly_data
    now,                     \* wall clock, in polls of the scheduler loop (60 s)
    next_run,                \* the schedule job's next_run
    cycle_end,               \* when the last collection cycle returned (-1: never)
    in_flight,               \* collect_hourly_data invocations not yet returned
    trigger_calls,           \* trigger_retraining invocations
    posts_sent,              \* requests.post calls made to the GitHub API
    cycle,                   \* the running (or last) collection cycle
    cycles_run,              \* collection cycles started
    signals,                 \* SIGINT (Ctrl+C) deliveries to the scheduler
    \* ---- ingestion.py: _process_readings called on its own
    readings,                \* the raw frame, in order of arrival
    features,                \* the frame _process_readings returned
    batch_features,          \* the frame it returned for a later batch alone
    \* ---- ingestion.py: one collect_live_data call
    weather,                 \* what the weather API reports per location
    all_readings,            \* local all_readings
    collect_pc,              \* position inside collect_live_data
    iteration,               \* local iteration (the round number)
    next_loc,                \* the location the round fetches next
    fetch_errors,            \* "Error fetching weather data" lines printed
    interrupted,             \* "Collection interrupted by user" was printed
    save_calls,              \* _save_data calls
    returned_df,             \* the frame df that collect_live_data returned
    clock,                   \* time.time() - start_time, in ticks
    collection_start,        \* local collection_start, in ticks
    prev_start,              \* collection_start of the round before (-1: none)
    split                    \* what prepare_training_data returned

service_vars == <<reference_data, current_drift_report, last_drift_check,
                  DRIFT_SCORE_GAUGE, FEATURES_DRIFTED_GAUGE,
                  DRIFT_DETECTED_COUNTER, alert_file, evidently_runs,
                  evidently_shape, periodic_pc, running, periodic_errors, pc, cur,
                  ref_df, last, bootstrap_batch>>
parse_vars == <<report_dict, feature_cols, parsed, log_file, loaded>>
sched_vars == <<total_readings, last_collection, github_token, sched_pc, now,
                next_run, cycle_end, in_flight, trigger_calls, posts_sent,
                cycle, cycles_run, signals>>
roll_vars == <<readings, features, batch_features>>
collect_vars == <<weather, all_readings, collect_pc, iteration, next_loc,
                  fetch_errors, interrupted, save_calls, returned_df, clock,
                  collection_start, prev_start, split>>
pipe_vars == <<roll_vars, collect_vars>>
vars == <<service_vars, parse_vars, sched_vars, pipe_vars>>

---------------------------------------------------------------------------
\* Bounds of the model
MaxCalls == 3       \* calculate_drift requests in one behaviour
MaxRows == 2        \* rows of a request's current_data
MaxLevel == 2       \* distinct distributions a column's values are drawn from
MaxErrors == 2      \* printed periodic-loop errors, counted modulo MaxErrors + 1
MaxScore == 5       \* largest per-column score in a hand-made report (tenths)
MaxTime == 9        \* polls of the scheduler loop in one behaviour
PollsPerHour == 3   \* scheduler polls (time.sleep(60)) per hour, scaled down
MaxCollectLen == 2  \* longest collect_live_data call, in polls
MaxSignals == 1     \* Ctrl+C deliveries in one behaviour
MaxReadings == 4    \* rows of a frame given to _process_readings
MaxValue == 2       \* largest sensor value
MaxRounds == 3      \* rounds of one collect_live_data call
IntervalTicks == 2  \* interval_seconds, in clock ticks
DurationTicks == 4  \* duration_hours * 3600 seconds, in clock ticks
LONG_WINDOW == 2    \* rows of the "24h" window, rolling(24), scaled down
RETRAIN_HOURS == 2  \* the "24 hours" of scheduler.py line 57, scaled down
MaxLogLines == 4    \* lines of a prediction log file
DRIFT_WINDOW_SIZE == 2  \* the DRIFT_WINDOW_SIZE of line 36 (1000), scaled down

\* Program constants
DRIFT_THRESHOLD == 3
RETRAIN_THRESHOLD == 1000

Min(a, b) == IF a < b THEN a ELSE b

---------------------------------------------------------------------------
\* Data frames.  A frame is its column set, its row count and the
\* distribution ("level") its numeric values are drawn from.
FeatureNames == {"vibration", "temperature"}
ColumnSets == {{"vibration", "temperature", "machine_id"},
               {"vibration", "machine_id"},
               {"temperature", "machine_id"}}

NoFrame == [cols |-> {}, rows |-> -1, level |-> 0]
\* pd.DataFrame([]) : no rows, no columns
EmptyList == [cols |-> {}, rows |-> 0, level |-> 0]
\* pd.DataFrame([{}]) : one row, no columns
EmptyDicts == [cols |-> {}, rows |-> 1, level |-> 0]
AllColumns == {"vibration", "temperature", "machine_id"}
\* Frames with every column take every size and level; the narrower frames
\* are single rows at the two extreme levels.
Frames == {f \in [cols : ColumnSets, rows : 1..MaxRows, level : 0..MaxLevel] :
              f.cols # AllColumns => (f.rows = 1 /\ f.level \in {0, MaxLevel})}
Requests == Frames \cup {EmptyList, EmptyDicts}

\* DataFrame.empty: any axis has length 0
IsEmpty(df) == df.rows = 0 \/ df.cols = {}

NonFeatureCols == {"machine_id", "timestamp", "event_timestamp"}
\* variant: the identifier columns are not taken out
FeatureCols_all(ref, current) == ref.cols \cap current.cols

\* lines 183-184: common columns without the identifier columns
FeatureCols(ref, current) == (ref.cols \cap current.cols) \ NonFeatureCols

---------------------------------------------------------------------------
\* Evidently.  report.run(...) / report.as_dict() is a deterministic function
\* of the two frames; which keys the DatasetDriftMetric result carries depends
\* on the installed library and is fixed for a whole behaviour.
EvidentlyShapes == {"by_columns", "summary_only", "no_metric"}

Abs(x) == IF x < 0 THEN -x ELSE x

\* the two-sample distance of one column (vibration reacts more strongly)
ColumnDistance(ref, current, col) ==
    (IF col = "vibration" THEN 3 ELSE 2) * Abs(ref.level - current.level)

NoEntries == [c \in {} |-> [has_score |-> FALSE, drift_score |-> 0,
                            has_flag |-> FALSE, drift_detected |-> FALSE]]

\* lines 194-206: Report(...).run(reference_data, current_data).as_dict()
RunEvidently(ref, current, fcols, shape) ==
    CASE shape = "by_columns" ->
           [kind |-> "ok",
            drift_by_columns |->
               [c \in fcols |->
                  [has_score |-> TRUE,
                   drift_score |-> ColumnDistance(ref, current, c),
                   has_flag |-> TRUE,
                   drift_detected |-> ColumnDistance(ref, current, c) >= 1]]]
      [] shape = "summary_only" ->
           [kind |-> "ok", drift_by_columns |-> NoEntries]
      [] OTHER ->
           [kind |-> "no_metric", drift_by_columns |-> NoEntries]

---------------------------------------------------------------------------
\* parse_drift_report (lines 269-322)
EmptyMap == [c \in {} |-> 0]
EmptyFlags == [c \in {} |-> FALSE]

MaxOf(S) == CHOOSE x \in S : \A y \in S : y <= x
Values(f) == {f[c] : c \in DOMAIN f}

\* lines 284-289 and 317-322: the report returned when nothing can be parsed
FallbackResults ==
    [drift_detected |-> FALSE, drift_score |-> 0,
     feature_drifts |-> EmptyMap, p_values |-> EmptyFlags]

\* variant: a score equal to the threshold counts as drift
ExceedsThreshold_ge(score) == score >= DRIFT_THRESHOLD

\* line 306
ExceedsThreshold(score) == score > DRIFT_THRESHOLD

\* line 300: the flag stored for a column is the one the scorer reported
ColumnFlag(entry) == IF entry.has_flag THEN entry.drift_detected ELSE FALSE

\* line 299
ColumnScore(entry) == IF entry.has_score THEN entry.drift_score ELSE 0

\* line 303
OverallScore(feature_drifts) ==
    IF DOMAIN feature_drifts # {} THEN MaxOf(Values(feature_drifts)) ELSE 0

parse_drift_report(rd, fcols) ==
    IF rd.kind # "ok"
    THEN FallbackResults
    ELSE LET by == rd.drift_by_columns
             Entry(c) == IF c \in DOMAIN by THEN by[c]
                         ELSE [has_score |-> FALSE, drift_score |-> 0,
                               has_flag |-> FALSE, drift_detected |-> FALSE]
             fd == [c \in fcols |-> ColumnScore(Entry(c))]
             pv == [c \in fcols |-> ColumnFlag(Entry(c))]
         IN [drift_detected |-> ExceedsThreshold(OverallScore(fd)),
             drift_score |-> OverallScore(fd),
             feature_drifts |-> fd,
             p_values |-> pv]

---------------------------------------------------------------------------
\* load_recent_predictions (lines 325-360)

\* a line of the log: "ok" parses to an object with an "input" item,
\* "garbled" is not JSON (skipped at line 344), "no_input" parses to
\* something without an "input" item (line 343 raises, caught at line 358).
\* The input of an "ok" line is named by the line's number.
LineKinds == {"ok", "garbled", "no_input"}

NoLogFile == [exists |-> FALSE, lines |-> <<>>]

LogFiles ==
    {NoLogFile}
    \cup {[exists |-> TRUE, lines |-> l] :
             l \in UNION {[1..n -> LineKinds] : n \in 0..MaxLogLines}}

\* lines 338-345: the inputs of the lines that parse, in file order
Predictions(lines) ==
    SelectSeq([i \in 1..Len(lines) |-> i], LAMBDA i : lines[i] = "ok")

\* variant: the first rows are kept
TailRows_head(rows, n) == SubSeq(rows, 1, n)

\* DataFrame.tail(n)
TailRows(rows, n) == SubSeq(rows, Len(rows) - n + 1, Len(rows))

load_recent_predictions(f) ==
    IF ~f.exists THEN <<>>
    ELSE IF \E i \in 1..Len(f.lines) : f.lines[i] = "no_input" THEN <<>>
    ELSE IF Len(Predictions(f.lines)) > DRIFT_WINDOW_SIZE
    THEN TailRows(Predictions(f.lines), DRIFT_WINDOW_SIZE)
    ELSE Predictions(f.lines)

NotLoaded == [done |-> FALSE, rows |-> <<>>]

LoadIdle ==
    /\ log_file = NoLogFile
    /\ loaded = NotLoaded

---------------------------------------------------------------------------
\* drift_service.py: responses
NoDetail == [wraps |-> 0, text |-> ""]

\* an HTTPException(status_code, detail)
HTTPException(status, detail) ==
    [status |-> status, detail |-> detail,
     drift_detected |-> FALSE, drift_score |-> 0,
     feature_drifts |-> EmptyMap, p_values |-> EmptyFlags,
     reference_window_size |-> 0, current_window_size |-> 0,
     drift_threshold |-> 0]

\* lines 243-245: "except Exception as e" also catches the HTTPException the
\* handler raised itself (HTTPException derives from Exception) and raises
\* HTTPException(500, str(e)); str(e) of an HTTPException is "<code>: <detail>".
ExceptHandler(status, text) ==
    HTTPException(500, [wraps |-> status, text |-> text])

\* lines 171-180 and 226-235: a DriftResponse
DriftResponse(results, ref_size, cur_size) ==
    [status |-> 200, detail |-> NoDetail,
     drift_detected |-> results.drift_detected,
     drift_score |-> results.drift_score,
     feature_drifts |-> results.feature_drifts,
     p_values |-> results.p_values,
     reference_window_size |-> ref_size,
     current_window_size |-> cur_size,
     drift_threshold |-> DRIFT_THRESHOLD]

NoReport == [present |-> FALSE, results |-> FallbackResults]
\* the last completed call: its number, its current_data, the ref_df it used,
\* the branch it took, its response, and whether it repeated the current_data
\* of the call before it, which had been scored and answered
NoCall == [seq |-> 0, data |-> NoFrame, ref |-> NoFrame, path |-> "none",
           resp |-> HTTPException(0, NoDetail), repeat |-> FALSE]

ReqIds == 1..MaxCalls

\* variant: the handler awaits between reading and storing the reference
YieldsAfterReferenceRead_await == TRUE

\* lines 165-170: no await stands between reading the global reference_data
\* and storing the bootstrap batch, so the handler keeps the event loop.
YieldsAfterReferenceRead == FALSE

\* lines 215-217
CountDrifted(feature_drifts) ==
    Cardinality({c \in DOMAIN feature_drifts :
                    feature_drifts[c] > DRIFT_THRESHOLD})

\* lines 212-213: one labelled gauge value per scored feature
SetScoreGauges(gauge, feature_drifts) ==
    [c \in FeatureNames |->
        IF c \in DOMAIN feature_drifts THEN feature_drifts[c] ELSE gauge[c]]

\* variant: every scoring run counts as a detection
CounterAfterScoring_always(counter, results) == counter + 1

\* lines 219-220
CounterAfterScoring(counter, results) ==
    IF results.drift_detected THEN counter + 1 ELSE counter

\* variant: the assignment binds a local name and the global stays None
BootstrapReference_local(current_df) == NoFrame

\* line 170: the batch stored as the reference by the bootstrap rule
BootstrapReference(current_df) == current_df

\* variant: every scored batch replaces the reference
ReferenceAfterScoring_rolling(ref, current_df) == current_df

\* lines 182-241: the scoring branch assigns only the local ref_df (line 189);
\* the global reference_data keeps its value
ReferenceAfterScoring(ref, current_df) == ref

\* variant: the first report cached is kept
CacheAfterScoring_first(cache, results) ==
    IF cache.present THEN cache ELSE [present |-> TRUE, results |-> results]

\* line 223: current_drift_report = drift_results, a global of the module
\* (line 155)
CacheAfterScoring(cache, results) == [present |-> TRUE, results |-> results]

\* variant: the handler stamps the time of every scoring run
LastCheckAfterCall_stamp(last_check) == last_check + 1

\* lines 155-245: calculate_drift declares reference_data and
\* current_drift_report global and assigns no last_drift_check
LastCheckAfterCall(last_check) == last_check

Complete(r, d, ref, path, resp) ==
    /\ last' = [seq |-> last.seq + 1, data |-> d, ref |-> ref,
                path |-> path, resp |-> resp,
                repeat |-> (last.data = d /\ last.path = "scored")]
    /\ pc' = [pc EXCEPT ![r] = "done"]
    /\ cur' = [cur EXCEPT ![r] = NoFrame]
    /\ ref_df' = [ref_df EXCEPT ![r] = NoFrame]
    /\ running' = 0

InitService ==
    /\ reference_data = NoFrame
    /\ current_drift_report = NoReport
    /\ last_drift_check = 0
    /\ DRIFT_SCORE_GAUGE = [c \in FeatureNames |-> -1]
    /\ FEATURES_DRIFTED_GAUGE = 0
    /\ DRIFT_DETECTED_COUNTER = 0
    /\ alert_file = 0
    /\ evidently_runs = 0
    /\ periodic_pc = "none"
    /\ running = 0
    /\ periodic_errors = 0
    /\ pc = [r \in ReqIds |-> "new"]
    /\ cur = [r \in ReqIds |-> NoFrame]
    /\ ref_df = [r \in ReqIds |-> NoFrame]
    /\ last = NoCall
    /\ bootstrap_batch = NoFrame

\* A POST /calculate_drift arrives: its handler coroutine is created.  The
\* loop creates it only while no coroutine is executing, and after the task
\* created by startup_event has had its first turn.
Submit(r) ==
    /\ pc[r] = "new"
    /\ \A q \in ReqIds : q < r => pc[q] # "new"
    /\ running = 0
    /\ periodic_pc # "created"
    /\ pc' = [pc EXCEPT ![r] = "queued"]
    /\ UNCHANGED <<reference_data, current_drift_report, last_drift_check,
                   DRIFT_SCORE_GAUGE, FEATURES_DRIFTED_GAUGE,
                   DRIFT_DETECTED_COUNTER, alert_file, evidently_runs,
                   evidently_shape, periodic_pc, running, periodic_errors,
                   cur, ref_df, last, bootstrap_batch>>
    /\ UNCHANGED <<parse_vars, sched_vars, pipe_vars>>

\* calculate_drift, lines 157-165: build current_df, reject an empty one,
\* read the global reference into ref_df.
CalcEnter(r) ==
    /\ pc[r] = "queued"
    /\ running = 0
    /\ \E d \in Requests :
         IF IsEmpty(d)
         THEN /\ Complete(r, d, NoFrame, "empty",
                          ExceptHandler(400, "Current data is empty"))
         ELSE /\ pc' = [pc EXCEPT ![r] = "have_ref"]
              /\ cur' = [cur EXCEPT ![r] = d]
              /\ ref_df' = [ref_df EXCEPT ![r] = reference_data]
              /\ running' = IF YieldsAfterReferenceRead THEN 0 ELSE r
              /\ last' = last
    /\ UNCHANGED <<reference_data, current_drift_report, last_drift_check,
                   DRIFT_SCORE_GAUGE, FEATURES_DRIFTED_GAUGE,
                   DRIFT_DETECTED_COUNTER, alert_file, evidently_runs,
                   evidently_shape, periodic_pc, periodic_errors,
                   bootstrap_batch>>
    /\ UNCHANGED <<parse_vars, sched_vars, pipe_vars>>

\* calculate_drift, lines 167-180: the bootstrap rule
CalcBootstrap(r) ==
    /\ pc[r] = "have_ref"
    /\ running \in {0, r}
    /\ ref_df[r] = NoFrame
    /\ reference_data' = BootstrapReference(cur[r])
    /\ bootstrap_batch' = cur[r]
    /\ Complete(r, cur[r], NoFrame, "bootstrap",
                DriftResponse(FallbackResults, cur[r].rows, cur[r].rows))
    /\ UNCHANGED <<current_drift_report, last_drift_check,
                   DRIFT_SCORE_GAUGE, FEATURES_DRIFTED_GAUGE,
                   DRIFT_DETECTED_COUNTER, alert_file, evidently_runs,
                   evidently_shape, periodic_pc, periodic_errors>>
    /\ UNCHANGED <<parse_vars, sched_vars, pipe_vars>>

\* calculate_drift, lines 182-187: no common feature column
CalcNoCommon(r) ==
    /\ pc[r] = "have_ref"
    /\ running \in {0, r}
    /\ ref_df[r] # NoFrame
    /\ FeatureCols(ref_df[r], cur[r]) = {}
    /\ Complete(r, cur[r], ref_df[r], "no_common",
                ExceptHandler(400, "No common features found"))
    /\ UNCHANGED <<reference_data, current_drift_report, last_drift_check,
                   DRIFT_SCORE_GAUGE, FEATURES_DRIFTED_GAUGE,
                   DRIFT_DETECTED_COUNTER, alert_file, evidently_runs,
                   evidently_shape, periodic_pc, periodic_errors,
                   bootstrap_batch>>
    /\ UNCHANGED <<parse_vars, sched_vars, pipe_vars>>

\* calculate_drift, lines 189-241, with trigger_drift_alert (396-415):
\* score, update the metrics, cache the results, alert, respond.
\* sink_ok: whether drift_alerts.jsonl can be opened for appending.
CalcScore(r) ==
    /\ pc[r] = "have_ref"
    /\ running \in {0, r}
    /\ ref_df[r] # NoFrame
    /\ FeatureCols(ref_df[r], cur[r]) # {}
    /\ \E sink_ok \in BOOLEAN :
         LET fcols == FeatureCols(ref_df[r], cur[r])
             report == RunEvidently(ref_df[r], cur[r], fcols, evidently_shape)
             drift_results == parse_drift_report(report, fcols)
             response == DriftResponse(drift_results, ref_df[r].rows,
                                       cur[r].rows)
         IN /\ evidently_runs' = evidently_runs + 1
            /\ DRIFT_SCORE_GAUGE' =
                  SetScoreGauges(DRIFT_SCORE_GAUGE, drift_results.feature_drifts)
            /\ FEATURES_DRIFTED_GAUGE' =
                  CountDrifted(drift_results.feature_drifts)
            /\ DRIFT_DETECTED_COUNTER' =
                  CounterAfterScoring(DRIFT_DETECTED_COUNTER, drift_results)
            /\ current_drift_report' =
                  CacheAfterScoring(current_drift_report, drift_results)
            /\ last_drift_check' = LastCheckAfterCall(last_drift_check)
            /\ reference_data' = ReferenceAfterScoring(reference_data, cur[r])
            /\ IF response.drift_detected /\ ~sink_ok
               THEN /\ alert_file' = alert_file
                    /\ Complete(r, cur[r], ref_df[r], "alert_failed",
                                ExceptHandler(0, "cannot open drift_alerts.jsonl"))
               ELSE /\ alert_file' = IF response.drift_detected
                                     THEN alert_file + 1 ELSE alert_file
                    /\ Complete(r, cur[r], ref_df[r], "scored", response)
    /\ UNCHANGED <<evidently_shape, periodic_pc, periodic_errors,
                   bootstrap_batch>>
    /\ UNCHANGED <<parse_vars, sched_vars, pipe_vars>>

\* calculate_drift, lines 189-203 and 243-245: Report.run raises; the handler
\* leaves the try block before line 206 and answers 500.
CalcScorerError(r) ==
    /\ pc[r] = "have_ref"
    /\ running \in {0, r}
    /\ ref_df[r] # NoFrame
    /\ FeatureCols(ref_df[r], cur[r]) # {}
    /\ Complete(r, cur[r], ref_df[r], "scorer_error",
                ExceptHandler(0, "Report.run raised"))
    /\ UNCHANGED <<reference_data, current_drift_report, last_drift_check,
                   DRIFT_SCORE_GAUGE, FEATURES_DRIFTED_GAUGE,
                   DRIFT_DETECTED_COUNTER, alert_file, evidently_runs,
                   evidently_shape, periodic_pc, periodic_errors,
                   bootstrap_batch>>
    /\ UNCHANGED <<parse_vars, sched_vars, pipe_vars>>

\* lines 11-27: the modules the file binds at module level.  "import asyncio"
\* appears only inside startup_event (a local name, line 123) and under
\* __name__ == "__main__" (line 423), which is not the module uvicorn serves.
ModuleGlobals == {"json", "os", "time", "datetime", "timedelta", "Path",
                  "List", "Dict", "Optional", "pd", "uvicorn",
                  "ColumnMapping", "DataDriftPreset", "Report",
                  "DataDriftTable", "DatasetDriftMetric", "FastAPI",
                  "HTTPException", "BackgroundTasks", "Gauge", "Counter",
                  "generate_latest", "CONTENT_TYPE_LATEST", "Response",
                  "BaseModel"}

\* the parquet files REFERENCE_DATA_PATH may hold
ReferenceFiles == {f \in Frames : f.rows = MaxRows /\ f.level = 0}

\* startup_event, lines 103-126: load the reference when the file exists and
\* create the periodic task.
startup_event ==
    /\ periodic_pc = "none"
    /\ running = 0
    /\ \A r \in ReqIds : pc[r] = "new"
    /\ \E f \in ReferenceFiles \cup {NoFrame} : reference_data' = f
    /\ periodic_pc' = "created"
    /\ UNCHANGED <<current_drift_report, last_drift_check,
                   DRIFT_SCORE_GAUGE, FEATURES_DRIFTED_GAUGE,
                   DRIFT_DETECTED_COUNTER, alert_file, evidently_runs,
                   evidently_shape, running, periodic_errors, pc, cur,
                   ref_df, last, bootstrap_batch>>
    /\ UNCHANGED <<parse_vars, sched_vars, pipe_vars>>

\* variant: the try statement encloses the loop
CaughtInsideLoop_outside == FALSE

\* lines 368-393: the try/except Exception is the body of "while True", so
\* an exception caught at line 392 is followed by the next turn of the loop
CaughtInsideLoop == TRUE

\* periodic_drift_check, lines 368-393: one turn of "while True".  Evaluating
\* asyncio.sleep looks the name asyncio up in the module globals; when it is
\* not bound the NameError is caught at line 392, printed, and the loop goes
\* round again without ever having awaited: the task keeps the event loop.
periodic_drift_check ==
    /\ periodic_pc \in {"created", "spinning"}
    /\ running \in {0, -1}
    /\ IF "asyncio" \in ModuleGlobals
       THEN /\ periodic_pc' = "sleeping"
            /\ running' = 0
            /\ periodic_errors' = periodic_errors
       ELSE IF CaughtInsideLoop
       THEN /\ periodic_pc' = "spinning"
            /\ running' = -1
            /\ periodic_errors' = (periodic_errors + 1) % (MaxErrors + 1)
       ELSE /\ periodic_pc' = "dead"
            /\ running' = 0
            /\ periodic_errors' = periodic_errors
    /\ UNCHANGED <<reference_data, current_drift_report, last_drift_check,
                   DRIFT_SCORE_GAUGE, FEATURES_DRIFTED_GAUGE,
                   DRIFT_DETECTED_COUNTER, alert_file, evidently_runs,
                   evidently_shape, pc, cur, ref_df, last, bootstrap_batch>>
    /\ UNCHANGED <<parse_vars, sched_vars, pipe_vars>>

---------------------------------------------------------------------------
\* ingestion.py: LiveDataPipeline

\* DEFAULT_LOCATIONS (lines 42-53), two of the ten, named by the number in
\* their machine_id
Locations == {1, 2}

Sum(s) == IF Len(s) = 0 THEN 0 ELSE LET F[i \in 1..Len(s)] ==
                                         IF i = 1 THEN s[1] ELSE F[i - 1] + s[i]
                                     IN F[Len(s)]
Squares(s) == [i \in 1..Len(s) |-> s[i] * s[i]]
Largest(a, b) == IF a < b THEN b ELSE a

\* a raw reading as fetch_weather_data returns it, with the machine_id of
\* line 232; synthetic tells whether _generate_synthetic_reading made it (the
\* dictionary itself carries no such mark)
Reading(m, v, syn) == [machine_id |-> m, value |-> v, synthetic |-> syn]

\* the rows of one machine, in the order of the frame
RowsOf(frame, m) == SelectSeq(frame, LAMBDA r : r.machine_id = m)
ValuesOf(frame, m) == [i \in 1..Len(RowsOf(frame, m)) |-> RowsOf(frame, m)[i].value]

\* line 288: df.sort_values(["machine_id", "event_timestamp"]); a reading's
\* event_timestamp is its place in the order of arrival
RECURSIVE SortByMachine(_, _)
SortByMachine(frame, ms) ==
    IF ms = {} THEN <<>>
    ELSE LET m == CHOOSE x \in ms : \A y \in ms : x <= y
         IN RowsOf(frame, m) \o SortByMachine(frame, ms \ {m})

Stamp(raw) ==
    [i \in 1..Len(raw) |->
        [machine_id |-> raw[i].machine_id, event_timestamp |-> i,
         value |-> raw[i].value, synthetic |-> raw[i].synthetic]]

\* variant: the window never evicts
RollingWindow_expanding(vals, p, w, min_periods) ==
    IF p < min_periods THEN <<>> ELSE SubSeq(vals, 1, p)

\* Series.rolling(w, min_periods): the window ending at the p-th value holds
\* the last w values, fewer at the start; with fewer than min_periods values
\* the statistic is NaN (the empty window here)
RollingWindow(vals, p, w, min_periods) ==
    IF p < min_periods THEN <<>> ELSE SubSeq(vals, Largest(1, p - w + 1), p)

\* numbers are fractions num/den; NaN is its own value
NaN == [nan |-> TRUE, num |-> 0, den |-> 1]
Number(num, den) == [nan |-> FALSE, num |-> num, den |-> den]

\* .mean() of a window
MeanOf(win) == IF Len(win) = 0 THEN NaN ELSE Number(Sum(win), Len(win))

\* .std() of a window (ddof = 1), kept as its square, the sample variance
\* (n * sum(x^2) - sum(x)^2) / (n * (n - 1)); NaN over a single value
StdOf(win) ==
    IF Len(win) < 2 THEN NaN
    ELSE Number(Len(win) * Sum(Squares(win)) - Sum(win) * Sum(win),
                Len(win) * (Len(win) - 1))

\* .fillna(0)
FillNa0(x) == IF x.nan THEN Number(0, 1) ELSE x

\* variant: the mean minus the reading
TrendOf_reversed(value, mean) ==
    IF mean.nan THEN NaN ELSE Number(mean.num - mean.den * value, mean.den)

\* line 305: machine_data[col] - df.loc[mask, f"{col}_mean_24h"]
TrendOf(value, mean) ==
    IF mean.nan THEN NaN ELSE Number(mean.den * value - mean.num, mean.den)

\* lines 290-305: the feature row of the p-th reading of a machine
FeatureRow(row, vals, p) ==
    [machine_id |-> row.machine_id,
     event_timestamp |-> row.event_timestamp,
     value |-> row.value,
     synthetic |-> row.synthetic,
     mean_1h |-> Number(row.value, 1),
     std_1h |-> FillNa0(StdOf(RollingWindow(vals, p, 1, 1))),
     min_1h |-> row.value,
     max_1h |-> row.value,
     mean_24h |-> MeanOf(RollingWindow(vals, p, LONG_WINDOW, 1)),
     std_24h |-> FillNa0(StdOf(RollingWindow(vals, p, LONG_WINDOW, 1))),
     trend_24h |-> TrendOf(row.value,
                           MeanOf(RollingWindow(vals, p, LONG_WINDOW, 1)))]

\* _process_readings, lines 273-315, for one of the four sensor columns
_process_readings(raw) ==
    LET df == SortByMachine(Stamp(raw), Locations)
        Place(j) == Cardinality({i \in 1..j : df[i].machine_id = df[j].machine_id})
    IN [j \in 1..Len(df) |->
           FeatureRow(df[j], ValuesOf(df, df[j].machine_id), Place(j))]

NoFeatures == [done |-> FALSE, rows |-> <<>>]

\* the frames _process_readings is applied to
RollFrames ==
    UNION {[1..n -> {Reading(m, v, FALSE) : m \in Locations, v \in 0..MaxValue}] :
              n \in 1..MaxReadings}

NoBatch == [done |-> FALSE, cut |-> 0, rows |-> <<>>]

InitRoll ==
    /\ readings \in RollFrames
    /\ features = NoFeatures
    /\ batch_features = NoBatch

ProcessReadings ==
    /\ ~features.done
    /\ features' = [done |-> TRUE, rows |-> _process_readings(readings)]
    /\ UNCHANGED <<readings, batch_features, collect_vars>>
    /\ UNCHANGED <<service_vars, parse_vars, sched_vars>>

\* The same readings arriving over two collect_live_data calls, the first
\* taking the first cut of them: each call starts from all_readings = []
\* (line 210) and hands _process_readings the frame of its own readings
\* (lines 257-260).  batch_features is the frame of the second call.
ProcessSecondBatch ==
    /\ ~batch_features.done
    /\ \E cut \in 1..(Len(readings) - 1) :
         batch_features' =
            [done |-> TRUE, cut |-> cut,
             rows |-> _process_readings(
                         SubSeq(readings, cut + 1, Len(readings)))]
    /\ UNCHANGED <<readings, features, collect_vars>>
    /\ UNCHANGED <<service_vars, parse_vars, sched_vars>>

\* ---- collect_live_data (lines 184-271)

NoFrameReturned == [returned |-> FALSE, rows |-> <<>>]
NoSplit == [done |-> FALSE, train |-> <<>>, test |-> <<>>]

CollectIdle ==
    /\ weather = [l \in Locations |-> 0]
    /\ all_readings = <<>>
    /\ collect_pc = "idle"
    /\ iteration = 0
    /\ next_loc = 0
    /\ fetch_errors = 0
    /\ interrupted = FALSE
    /\ save_calls = 0
    /\ returned_df = NoFrameReturned
    /\ clock = 0
    /\ collection_start = 0
    /\ prev_start = -1
    /\ split = NoSplit

RollIdle ==
    /\ readings = <<>>
    /\ features = NoFeatures
    /\ batch_features = NoBatch

InitCollect ==
    /\ weather \in [Locations -> 0..MaxValue]
    /\ all_readings = <<>>
    /\ collect_pc = "idle"
    /\ iteration = 0
    /\ next_loc = 0
    /\ fetch_errors = 0
    /\ interrupted = FALSE
    /\ save_calls = 0
    /\ returned_df = NoFrameReturned
    /\ clock = 0
    /\ collection_start = 0
    /\ prev_start = -1
    /\ split = NoSplit

FirstLocation == CHOOSE l \in Locations : \A k \in Locations : l <= k
LastLocation == CHOOSE l \in Locations : \A k \in Locations : k <= l

\* lines 199-218: start_time is taken (tick 0), end_time is DurationTicks
\* later, and the call starts its first round (time.time() < end_time holds
\* on the first test)
collect_live_data ==
    /\ collect_pc = "idle"
    /\ collect_pc' = "fetching"
    /\ iteration' = 1
    /\ next_loc' = FirstLocation
    /\ clock' = 0
    /\ collection_start' = 0
    /\ prev_start' = -1
    /\ UNCHANGED <<weather, all_readings, fetch_errors, interrupted, save_calls,
                   returned_df, split, roll_vars>>
    /\ UNCHANGED <<service_vars, parse_vars, sched_vars>>

\* lines 113-116 and 232-233: the reading that stands for a failed fetch is
\* the one _generate_synthetic_reading returns, appended like any other
AfterFailedFetch(readings_so_far, m, v) ==
    Append(readings_so_far, Reading(m, v, TRUE))

\* lines 245-251: the time the round took, the wait that fills the interval,
\* and the sleep, which is skipped when it would end at or after end_time;
\* the result is the clock when the loop test of line 216 is made next
AfterWait(t, started) ==
    LET elapsed == t - started
        wait_time == Largest(0, IntervalTicks - elapsed)
    IN IF wait_time > 0 /\ t + wait_time < DurationTicks
       THEN t + wait_time
       ELSE t

\* fetch_weather_data (lines 72-116) for the next location of the round, and
\* lines 232-233; the fetch takes no measurable time or one tick.  After the
\* last location the round is over: lines 245-251 wait, and the loop test of
\* line 216 either starts another round or leaves the loop.  A call runs
\* MaxRounds rounds at most.
fetch_weather_data ==
    /\ collect_pc = "fetching"
    /\ \E ok \in BOOLEAN, v \in 0..MaxValue :
         IF ok
         THEN /\ v = weather[next_loc]
              /\ all_readings' =
                    Append(all_readings, Reading(next_loc, v, FALSE))
              /\ fetch_errors' = fetch_errors
         ELSE /\ all_readings' = AfterFailedFetch(all_readings, next_loc, v)
              /\ fetch_errors' = fetch_errors + 1
    /\ \E took \in 0..1 :
         IF next_loc # LastLocation
         THEN /\ next_loc' = next_loc + 1
              /\ clock' = clock + took
              /\ UNCHANGED <<iteration, collect_pc, collection_start,
                             prev_start>>
         ELSE /\ clock' = AfterWait(clock + took, collection_start)
              /\ IF clock' < DurationTicks
                 THEN /\ iteration < MaxRounds
                      /\ iteration' = iteration + 1
                      /\ next_loc' = FirstLocation
                      /\ collect_pc' = "fetching"
                      /\ collection_start' = clock'
                      /\ prev_start' = collection_start
                 ELSE /\ collect_pc' = "loop_done"
                      /\ UNCHANGED <<iteration, next_loc, collection_start,
                                     prev_start>>
    /\ UNCHANGED <<weather, interrupted, save_calls, returned_df, split,
                   roll_vars>>
    /\ UNCHANGED <<service_vars, parse_vars, sched_vars>>

\* lines 253-254: Ctrl+C inside the loop is caught by collect_live_data
\* itself; the function goes on with what it has
CollectInterrupted ==
    /\ collect_pc = "fetching"
    /\ ~interrupted
    /\ interrupted' = TRUE
    /\ collect_pc' = "loop_done"
    /\ UNCHANGED <<weather, all_readings, iteration, next_loc, fetch_errors,
                   save_calls, returned_df, clock, collection_start,
                   prev_start, split, roll_vars>>
    /\ UNCHANGED <<service_vars, parse_vars, sched_vars>>

\* lines 256-271: build the frame, process and save it when it has rows,
\* print the summary (line 267 raises KeyError on a frame without columns,
\* to_parquet raises when the file cannot be written), return it
CollectReturn ==
    /\ collect_pc = "loop_done"
    /\ \E disk_ok \in BOOLEAN :
         IF Len(all_readings) = 0 \/ ~disk_ok
         THEN /\ collect_pc' = "raised"
              /\ UNCHANGED <<save_calls, returned_df>>
         ELSE /\ collect_pc' = "returned"
              /\ save_calls' = save_calls + 1
              /\ returned_df' = [returned |-> TRUE,
                        rows |-> _process_readings(all_readings)]
    /\ UNCHANGED <<weather, all_readings, iteration, next_loc, fetch_errors,
                   interrupted, clock, collection_start, prev_start, split,
                   roll_vars>>
    /\ UNCHANGED <<service_vars, parse_vars, sched_vars>>

\* line 359: int(len(df) * (1 - test_size)) with test_size = 0.2
SplitIndex(n) == (4 * n) \div 5

\* prepare_training_data, lines 342-381, called after collect_live_data has
\* returned (scheduler.py line 50): sensor_data_latest.parquet holds the frame
\* _save_data wrote, in the row order _process_readings left it in; the
\* first SplitIndex rows are the training set and the rest the test set.
prepare_training_data ==
    /\ collect_pc = "returned"
    /\ ~split.done
    /\ LET df == returned_df.rows
           split_idx == SplitIndex(Len(df))
       IN split' = [done |-> TRUE,
                    train |-> SubSeq(df, 1, split_idx),
                    test |-> SubSeq(df, split_idx + 1, Len(df))]
    /\ UNCHANGED <<weather, all_readings, collect_pc, iteration, next_loc,
                   fetch_errors, interrupted, save_calls, returned_df, clock,
                   collection_start, prev_start, roll_vars>>
    /\ UNCHANGED <<service_vars, parse_vars, sched_vars>>

PipeIdle ==
    /\ RollIdle
    /\ CollectIdle

---------------------------------------------------------------------------
\* Variables of the other components, at rest
ParseIdle ==
    /\ report_dict = [kind |-> "no_metric", drift_by_columns |-> NoEntries]
    /\ feature_cols = {}
    /\ parsed = [done |-> FALSE, results |-> FallbackResults]
    /\ LoadIdle

\* a cycle: whether it is the direct call of line 130, the counter before it,
\* the readings it added, its trigger_retraining and requests.post calls, how
\* it ended, and the counter value at which the cycle before it fired (-1 if
\* that cycle did not fire); last_collection before it; what became of its
\* POST ("none", "skipped", "ok", "failed") and of the POST of the cycle
\* before it; whether Ctrl+C arrived while it ran
NoCycle == [initial |-> FALSE, before |-> 0, n |-> 0, fired |-> 0,
            posted |-> 0, outcome |-> "none", prev_fired_at |-> -1,
            last_before |-> -1, post |-> "none", prev_post |-> "none",
            interrupted |-> FALSE]

SchedIdle ==
    /\ total_readings = 0
    /\ last_collection = -1
    /\ github_token = FALSE
    /\ sched_pc = "off"
    /\ now = 0
    /\ next_run = 0
    /\ cycle_end = -1
    /\ in_flight = 0
    /\ trigger_calls = 0
    /\ posts_sent = 0
    /\ cycle = NoCycle
    /\ cycles_run = 0
    /\ signals = 0

ServiceIdle ==
    /\ InitService
    /\ evidently_shape = "by_columns"

---------------------------------------------------------------------------
\* The drift service
Init ==
    /\ InitService
    /\ evidently_shape \in EvidentlyShapes
    /\ ParseIdle
    /\ SchedIdle
    /\ PipeIdle

Next ==
    \/ \E r \in ReqIds : Submit(r)
    \/ \E r \in ReqIds : CalcEnter(r)
    \/ \E r \in ReqIds : CalcBootstrap(r)
    \/ \E r \in ReqIds : CalcNoCommon(r)
    \/ \E r \in ReqIds : CalcScore(r)
    \/ startup_event
    \/ periodic_drift_check

Spec == Init /\ [][Next]_vars

\* The service with its periodic task: the task, once created, is a
\* coroutine the event loop runs whenever it is ready.  The requests are the
\* first two of ReqIds.
PeriodicReqIds == {1, 2}

NextPeriodic ==
    \/ \E r \in PeriodicReqIds : Submit(r)
    \/ \E r \in PeriodicReqIds : CalcEnter(r)
    \/ \E r \in PeriodicReqIds : CalcBootstrap(r)
    \/ \E r \in PeriodicReqIds : CalcNoCommon(r)
    \/ \E r \in PeriodicReqIds : CalcScore(r)
    \/ startup_event
    \/ periodic_drift_check

SpecPeriodic ==
    Init /\ [][NextPeriodic]_vars /\ WF_vars(periodic_drift_check)

\* The service with a scorer that can fail: Report.run may raise on a batch.
\* The requests are the first three of ReqIds.
CacheReqIds == {1, 2, 3}

NextCache ==
    \/ \E r \in CacheReqIds : Submit(r)
    \/ \E r \in CacheReqIds : CalcEnter(r)
    \/ \E r \in CacheReqIds : CalcBootstrap(r)
    \/ \E r \in CacheReqIds : CalcNoCommon(r)
    \/ \E r \in CacheReqIds : CalcScore(r)
    \/ \E r \in CacheReqIds : CalcScorerError(r)
    \/ startup_event
    \/ periodic_drift_check

SpecCache == Init /\ [][NextCache]_vars

---------------------------------------------------------------------------
\* parse_drift_report as a function of its arguments (as test_drift.py calls
\* it): report dictionaries of every shape the parser tells apart.
Entries ==
    {e \in [has_score : BOOLEAN, drift_score : 0..MaxScore,
            has_flag : BOOLEAN, drift_detected : BOOLEAN] :
        /\ (~e.has_score => e.drift_score = 0)
        /\ (~e.has_flag => ~e.drift_detected)}

ColumnMaps == UNION {[D -> Entries] : D \in SUBSET FeatureNames}

\* "ok": a DatasetDriftMetric with a non-empty result; "no_metric": none in
\* the list; "empty_result": its result is missing or {}; "raises": a value
\* of the wrong type makes the parsing raise (caught at line 315).
ReportDicts ==
    {[kind |-> "ok", drift_by_columns |-> m] : m \in ColumnMaps}
    \cup {[kind |-> k, drift_by_columns |-> NoEntries] :
             k \in {"no_metric", "empty_result", "raises"}}

InitParse ==
    /\ report_dict \in ReportDicts
    /\ feature_cols \in SUBSET FeatureNames
    /\ parsed = [done |-> FALSE, results |-> FallbackResults]
    /\ LoadIdle
    /\ ServiceIdle
    /\ SchedIdle
    /\ PipeIdle

ParseCall ==
    /\ ~parsed.done
    /\ parsed' = [done |-> TRUE,
                  results |-> parse_drift_report(report_dict, feature_cols)]
    /\ UNCHANGED <<report_dict, feature_cols, log_file, loaded, service_vars,
                   sched_vars, pipe_vars>>

NextParse == ParseCall

SpecParse == InitParse /\ [][NextParse]_vars

---------------------------------------------------------------------------
\* load_recent_predictions as a function of today's log file
InitLoad ==
    /\ log_file \in LogFiles
    /\ loaded = NotLoaded
    /\ report_dict = [kind |-> "no_metric", drift_by_columns |-> NoEntries]
    /\ feature_cols = {}
    /\ parsed = [done |-> FALSE, results |-> FallbackResults]
    /\ ServiceIdle
    /\ SchedIdle
    /\ PipeIdle

LoadCall ==
    /\ ~loaded.done
    /\ loaded' = [done |-> TRUE, rows |-> load_recent_predictions(log_file)]
    /\ UNCHANGED <<report_dict, feature_cols, parsed, log_file, service_vars,
                   sched_vars, pipe_vars>>

NextLoad == LoadCall

SpecLoad == InitLoad /\ [][NextLoad]_vars

---------------------------------------------------------------------------
\* scheduler.py: ContinuousDataCollector

\* the number of readings one collect_live_data call returns (len(df));
\* 0: nothing was collected and line 267 raises on the empty frame
BatchSizes == {0, 10, 490, 500, 720}

\* schedule.every().hour.at(":00"): the next top of the hour after t
NextRunAfter(t) == ((t \div PollsPerHour) + 1) * PollsPerHour

\* variant: retraining only above the threshold
RetrainDue_gt(total) == total > RETRAIN_THRESHOLD

\* line 58
RetrainDue(total) == total >= RETRAIN_THRESHOLD

\* variant: the readings are counted before the frame is known to be saved
CounterAfterCollect_early(total, n, raised) == total + n

\* lines 41-46: collect_live_data raising leaves line 46 unexecuted
CounterAfterCollect(total, n, raised) == IF raised THEN total ELSE total + n

\* variant: a failed POST keeps the counter for another attempt
CounterAfterTrigger_keep(total, post_ok) == IF post_ok THEN 0 ELSE total

\* lines 60-61: trigger_retraining returns normally whatever became of the
\* POST (lines 97-102 catch its failure), and line 61 resets the counter
CounterAfterTrigger(total, post_ok) == 0

InitSched ==
    /\ total_readings = 0
    /\ last_collection = -1
    /\ github_token \in BOOLEAN
    /\ sched_pc = "off"
    /\ now \in 0..(PollsPerHour - 1)
    /\ next_run = 0
    /\ cycle_end = -1
    /\ in_flight = 0
    /\ trigger_calls = 0
    /\ posts_sent = 0
    /\ cycle = NoCycle
    /\ cycles_run = 0
    /\ signals = 0
    /\ ServiceIdle
    /\ ParseIdle
    /\ PipeIdle

StartCycle(initial) ==
    /\ sched_pc' = "collect"
    /\ in_flight' = in_flight + 1
    /\ cycles_run' = cycles_run + 1
    /\ cycle' = [initial |-> initial, before |-> total_readings, n |-> 0,
                 fired |-> 0, posted |-> 0, outcome |-> "running",
                 prev_fired_at |-> IF cycle.fired = 1
                                   THEN cycle.before + cycle.n ELSE -1,
                 last_before |-> last_collection, post |-> "none",
                 prev_post |-> cycle.post, interrupted |-> FALSE]

\* collect_hourly_data returns.  A job run by schedule.run_pending then has
\* its next_run recomputed from the clock (Job.run), and run_pending returns
\* to the time.sleep(60) of line 136; the direct call of line 130 is followed
\* by the first run_pending of the loop and leaves next_run as line 126 set it.
EndCycle(outcome, fired, posted, t) ==
    /\ cycle' = [cycle EXCEPT !.outcome = outcome, !.fired = fired,
                              !.posted = IF posted = "none" THEN 0 ELSE
                                         IF posted = "skipped" THEN 0 ELSE 1,
                              !.post = posted]
    /\ in_flight' = in_flight - 1
    /\ cycle_end' = t
    /\ now' = t
    /\ next_run' = IF cycle.initial THEN next_run ELSE NextRunAfter(t)
    /\ sched_pc' = IF cycle.initial THEN "run_pending" ELSE "sleep"

\* run_scheduler, lines 125-130: register the hourly job, then call
\* collect_hourly_data directly.
run_scheduler ==
    /\ sched_pc = "off"
    /\ next_run' = NextRunAfter(now)
    /\ StartCycle(TRUE)
    /\ UNCHANGED <<total_readings, last_collection, github_token, signals, now,
                   cycle_end, trigger_calls, posts_sent>>
    /\ UNCHANGED <<service_vars, parse_vars, pipe_vars>>

\* collect_hourly_data, lines 39-47: collect_live_data runs for d polls and
\* returns n readings, or raises (no reading at all, or the frame cannot be
\* saved); the exception is caught at line 63.
CollectData ==
    /\ sched_pc = "collect"
    /\ \E n \in BatchSizes, d \in 1..MaxCollectLen, saved \in BOOLEAN :
         /\ now + d <= MaxTime
         /\ IF n = 0 \/ ~saved
            THEN /\ EndCycle("collect_failed", 0, "none", now + d)
                 /\ total_readings' = CounterAfterCollect(total_readings, n, TRUE)
                 /\ UNCHANGED <<last_collection, cycles_run>>
            ELSE /\ total_readings' = CounterAfterCollect(total_readings, n, FALSE)
                 /\ last_collection' = now + d
                 /\ now' = now + d
                 /\ cycle' = [cycle EXCEPT !.n = n]
                 /\ sched_pc' = "prepare"
                 /\ UNCHANGED <<next_run, cycle_end, in_flight, cycles_run>>
    /\ UNCHANGED <<github_token, signals, trigger_calls, posts_sent>>
    /\ UNCHANGED <<service_vars, parse_vars, pipe_vars>>

\* collect_hourly_data, line 50: prepare_training_data reads the latest
\* parquet file and writes the processed ones; an I/O error is caught at
\* line 63, after the counter of line 46 has been advanced.
PrepareTrainingData ==
    /\ sched_pc = "prepare"
    /\ \E written \in BOOLEAN :
         IF written
         THEN /\ sched_pc' = "check"
              /\ UNCHANGED <<cycle, in_flight, cycle_end, now, next_run>>
         ELSE EndCycle("prepare_failed", 0, "none", now)
    /\ UNCHANGED <<total_readings, last_collection, github_token, signals,
                   trigger_calls, posts_sent, cycles_run>>
    /\ UNCHANGED <<service_vars, parse_vars, pipe_vars>>

\* collect_hourly_data, lines 57-61, with trigger_retraining (66-102):
\* without GITHUB_TOKEN nothing is sent (lines 75-78); the POST has no
\* timeout and takes d polls; its failure is caught at line 101.
RetrainCheck ==
    /\ sched_pc = "check"
    /\ IF RetrainDue(total_readings)
       THEN \E d \in 0..(PollsPerHour + 1), post_ok \in BOOLEAN :
              /\ now + d <= MaxTime
              /\ github_token \/ d = 0
              /\ trigger_calls' = trigger_calls + 1
              /\ posts_sent' = IF github_token THEN posts_sent + 1
                               ELSE posts_sent
              /\ total_readings' = CounterAfterTrigger(total_readings, post_ok)
              /\ EndCycle("completed", 1,
                          IF ~github_token THEN "skipped"
                          ELSE IF post_ok THEN "ok" ELSE "failed",
                          now + d)
       ELSE /\ EndCycle("completed", 0, "none", now)
            /\ UNCHANGED <<total_readings, trigger_calls, posts_sent>>
    /\ UNCHANGED <<last_collection, github_token, signals, cycles_run>>
    /\ UNCHANGED <<service_vars, parse_vars, pipe_vars>>

\* run_scheduler, line 135: schedule.run_pending() runs the job when it is due
RunPending ==
    /\ sched_pc = "run_pending"
    /\ IF now >= next_run
       THEN StartCycle(FALSE)
       ELSE /\ sched_pc' = "sleep"
            /\ UNCHANGED <<in_flight, cycles_run, cycle>>
    /\ UNCHANGED <<total_readings, last_collection, github_token, signals, now,
                   next_run, cycle_end, trigger_calls, posts_sent>>
    /\ UNCHANGED <<service_vars, parse_vars, pipe_vars>>

\* run_scheduler, line 136: time.sleep(60)
Sleep ==
    /\ sched_pc = "sleep"
    /\ now < MaxTime
    /\ now' = now + 1
    /\ sched_pc' = "run_pending"
    /\ UNCHANGED <<total_readings, last_collection, github_token, signals, next_run,
                   cycle_end, in_flight, trigger_calls, posts_sent, cycle,
                   cycles_run>>
    /\ UNCHANGED <<service_vars, parse_vars, pipe_vars>>

\* Ctrl+C while the scheduler runs.  Inside the loop of collect_live_data the
\* KeyboardInterrupt is caught at ingestion.py:253 and the call goes on to
\* process, save and return what it has.  Anywhere else in a cycle it is not
\* an Exception, so line 63 does not catch it: during the direct call of
\* line 130 it leaves run_scheduler uncaught, during a scheduled run and
\* during run_pending / time.sleep it is caught at line 137.
KeyboardInterrupt ==
    /\ signals < MaxSignals
    /\ sched_pc \in {"collect", "prepare", "check", "run_pending", "sleep"}
    /\ signals' = signals + 1
    /\ \E in_fetch_loop \in BOOLEAN :
         IF sched_pc = "collect" /\ in_fetch_loop
         THEN /\ cycle' = [cycle EXCEPT !.interrupted = TRUE]
              /\ UNCHANGED <<sched_pc, in_flight, cycle_end>>
         ELSE IF sched_pc \in {"collect", "prepare", "check"}
         THEN /\ cycle' = [cycle EXCEPT !.interrupted = TRUE,
                                        !.outcome = "aborted"]
              /\ in_flight' = in_flight - 1
              /\ cycle_end' = now
              /\ sched_pc' = IF cycle.initial THEN "crashed" ELSE "stopped"
         ELSE /\ ~in_fetch_loop
              /\ sched_pc' = "stopped"
              /\ UNCHANGED <<cycle, in_flight, cycle_end>>
    /\ UNCHANGED <<total_readings, last_collection, github_token, now,
                   next_run, trigger_calls, posts_sent, cycles_run>>
    /\ UNCHANGED <<service_vars, parse_vars, pipe_vars>>

NextSched ==
    \/ KeyboardInterrupt
    \/ run_scheduler
    \/ CollectData
    \/ PrepareTrainingData
    \/ RetrainCheck
    \/ RunPending
    \/ Sleep

SpecSched == InitSched /\ [][NextSched]_vars

---------------------------------------------------------------------------
\* _process_readings as a function of the frame it is given
InitRollSpec ==
    /\ InitRoll
    /\ CollectIdle
    /\ ServiceIdle
    /\ ParseIdle
    /\ SchedIdle

NextRoll == ProcessReadings

SpecRoll == InitRollSpec /\ [][NextRoll]_vars

\* a sequence of readings processed in one call and over two calls
NextBatches ==
    \/ ProcessReadings
    \/ ProcessSecondBatch

SpecBatches == InitRollSpec /\ [][NextBatches]_vars

\* one collect_live_data call
InitCollectSpec ==
    /\ InitCollect
    /\ RollIdle
    /\ ServiceIdle
    /\ ParseIdle
    /\ SchedIdle

NextCollect ==
    \/ collect_live_data
    \/ fetch_weather_data
    \/ CollectInterrupted
    \/ CollectReturn
    \/ prepare_training_data

SpecCollect == InitCollectSpec /\ [][NextCollect]_vars

---------------------------------------------------------------------------
\* Properties of the drift service (under Spec)

\* a calculate_drift call returns in this step
Returns == last'.seq # last.seq

MetricsUnchanged ==
    UNCHANGED <<DRIFT_SCORE_GAUGE, FEATURES_DRIFTED_GAUGE,
                DRIFT_DETECTED_COUNTER>>

\* C1: a request whose current_data is empty is answered with status 400 and
\* changes neither reference_data, current_drift_report, the drift counter
\* nor the gauges.
C1_EmptyRejectedAs400 ==
    [][(Returns /\ IsEmpty(last'.data)) =>
          /\ last'.resp.status = 400
          /\ MetricsUnchanged
          /\ UNCHANGED <<reference_data, current_drift_report>>]_vars

\* C2: a non-empty call that finds no reference stores its batch as the
\* reference and answers detected = false, score 0, without running the
\* scorer, writing an alert or counting a detection; a non-empty call that
\* finds a reference uses exactly that stored batch as its ref_df, leaves it
\* in place, and is scored against it whenever the two share a feature.
C2_BootstrapRule ==
    [][(Returns /\ ~IsEmpty(last'.data)) =>
          IF reference_data = NoFrame
          THEN /\ reference_data' = last'.data
               /\ last'.resp.status = 200
               /\ ~last'.resp.drift_detected
               /\ last'.resp.drift_score = 0
               /\ evidently_runs' = evidently_runs
               /\ alert_file' = alert_file
               /\ DRIFT_DETECTED_COUNTER' = DRIFT_DETECTED_COUNTER
          ELSE /\ last'.ref = reference_data
               /\ reference_data' = reference_data
               /\ (bootstrap_batch # NoFrame => last'.ref = bootstrap_batch)
               /\ last'.path # "bootstrap"
               /\ ((last'.ref.cols \cap last'.data.cols) \ NonFeatureCols # {}
                     => /\ evidently_runs' = evidently_runs + 1
                        /\ (last'.resp.status = 200 =>
                              last'.resp.reference_window_size
                                 = reference_data.rows))]_vars

\* the second call of a behaviour was scored against the batch the first one
\* stored, and the two batches differ
C2_Witness ==
    /\ last.seq = 2
    /\ last.path = "scored"
    /\ bootstrap_batch # NoFrame
    /\ last.ref = bootstrap_batch
    /\ last.data # bootstrap_batch
    /\ reference_data = bootstrap_batch

C7_NoCommonRejectedAs400 ==
    [][(/\ Returns
        /\ ~IsEmpty(last'.data)
        /\ reference_data # NoFrame
        /\ (reference_data.cols \cap last'.data.cols) \ NonFeatureCols = {})
         => /\ last'.resp.status = 400
            /\ last'.resp.detail = [wraps |-> 0,
                                    text |-> "No common features found"]
            /\ evidently_runs' = evidently_runs
            /\ alert_file' = alert_file
            /\ MetricsUnchanged]_vars

\* two calls in a row, both answered with a report, same current_data
RepeatedCall ==
    /\ last'.seq = last.seq + 1
    /\ last.seq >= 1
    /\ last'.data = last.data
    /\ last.resp.status = 200
    /\ last'.resp.status = 200

\* C8 as stated: two calls in a row with identical current_data return
\* identical reports, from every state of the service.
C8_DeterministicFromAnyState ==
    [][RepeatedCall => last'.resp = last.resp]_vars

\* C8 amended: two calls in a row with identical current_data return
\* identical reports when the first of them found a reference.
C8_DeterministicWithReference ==
    [][(RepeatedCall /\ last.path # "bootstrap") =>
          last'.resp = last.resp]_vars

\* a scored call that detected drift has just been repeated
C8_Witness ==
    /\ last.repeat
    /\ last.path = "scored"
    /\ last.resp.drift_detected
    /\ last.resp.reference_window_size # last.resp.current_window_size

---------------------------------------------------------------------------
\* Properties of parse_drift_report (under SpecParse)

\* C3: the overall score of a parsed report is the largest per-feature score
\* (0 when there is none), and detected is true exactly when the overall
\* score is strictly greater than the threshold.
C3_OverallIsMaxAndStrict ==
    parsed.done =>
       LET res == parsed.results
           fd == res.feature_drifts
       IN /\ (DOMAIN fd # {} =>
                /\ \E c \in DOMAIN fd : fd[c] = res.drift_score
                /\ \A c \in DOMAIN fd : fd[c] <= res.drift_score)
          /\ (DOMAIN fd = {} => res.drift_score = 0)
          /\ (res.drift_detected <=> res.drift_score > DRIFT_THRESHOLD)

\* a report of two features whose larger score equals the threshold
C3_Witness ==
    /\ parsed.done
    /\ DOMAIN parsed.results.feature_drifts = FeatureNames
    /\ parsed.results.feature_drifts["vibration"] = DRIFT_THRESHOLD
    /\ parsed.results.feature_drifts["temperature"] = 1
    /\ parsed.results.drift_score = DRIFT_THRESHOLD
    /\ ~parsed.results.drift_detected

\* C9: the per-feature flag of every feature of a report is true exactly
\* when the feature's score is strictly greater than the global threshold.
C9_FlagIsScoreAboveThreshold ==
    parsed.done =>
       \A c \in DOMAIN parsed.results.feature_drifts :
          parsed.results.p_values[c]
             <=> parsed.results.feature_drifts[c] > DRIFT_THRESHOLD

---------------------------------------------------------------------------
\* Properties of the scheduler (under SpecSched)

CycleOver == cycle.outcome \in {"completed", "collect_failed", "prepare_failed"}

\* C4 as stated: in the cycle in which the readings counted since the last
\* retraining reach 1000, exactly one retrain request fires and the counter
\* is back at 0 when the cycle is over; a cycle that adds no reading fires
\* none.
C4_FiresInTheCycleThatReaches ==
    CycleOver =>
       /\ (cycle.before < 1000 /\ cycle.before + cycle.n >= 1000) =>
             (cycle.fired = 1 /\ total_readings = 0)
       /\ cycle.n = 0 => cycle.fired = 0

\* C4 amended: a cycle that gets to its retrain check with the counter at
\* 1000 or more calls trigger_retraining exactly once and resets the counter
\* to 0, one below 1000 calls it not at all; a cycle whose collection or
\* prepare_training_data raises calls it not at all and keeps the counter,
\* already advanced when prepare_training_data was reached; a cycle that
\* collects no reading raises and calls it not at all.
C4_FiresOncePerCompletedCycle ==
    /\ cycle.outcome = "completed" =>
          IF cycle.before + cycle.n >= 1000
          THEN cycle.fired = 1 /\ total_readings = 0
          ELSE cycle.fired = 0 /\ total_readings = cycle.before + cycle.n
    /\ cycle.outcome \in {"collect_failed", "prepare_failed"} =>
          cycle.fired = 0 /\ total_readings = cycle.before + cycle.n
    /\ cycle.outcome = "collect_failed" => cycle.n = 0
    /\ (CycleOver /\ cycle.n = 0) => cycle.fired = 0

\* the counter reached exactly 1000 over several cycles, one request fired,
\* and the cycle after it collected nothing and fired none
C4_Witness ==
    /\ cycle.prev_fired_at = RETRAIN_THRESHOLD
    /\ trigger_calls = 1
    /\ cycles_run >= 3
    /\ cycle.outcome = "collect_failed"
    /\ cycle.before = 0
    /\ cycle.n = 0
    /\ total_readings = 0

\* C5: at most one collection cycle is in flight, and a tick that came due
\* while a cycle was running is dropped: when a cycle that ingested its
\* readings returns, no run of the job is pending.
C5_TicksDuringCycleDropped ==
    /\ in_flight <= 1
    /\ (in_flight = 0 /\ cycle_end = now /\ cycle.outcome = "completed")
          => now < next_run

---------------------------------------------------------------------------
\* Properties of collect_live_data (under SpecCollect)

\* C11: no reading made by _generate_synthetic_reading stands in
\* all_readings or in the returned frame for a fetch that failed: the frame
\* holds the readings of the fetches that succeeded and nothing else.
C11_NoSyntheticSubstitute ==
    /\ \A i \in 1..Len(all_readings) : ~all_readings[i].synthetic
    /\ collect_pc = "returned" =>
          \A j \in 1..Len(returned_df.rows) : ~returned_df.rows[j].synthetic

---------------------------------------------------------------------------
\* Properties of _process_readings (under SpecRoll)

\* the values of machine m in the raw frame, in order of arrival
ArrivedValues(m) ==
    LET rows == SelectSeq(readings, LAMBDA r : r.machine_id = m)
    IN [i \in 1..Len(rows) |-> rows[i].value]

\* how many readings of its machine had arrived when this row's reading did
ArrivedCount(row) ==
    Cardinality({i \in 1..row.event_timestamp :
                    readings[i].machine_id = row.machine_id})

\* the most recent min(k, W) values of the row's machine
RecentValues(row) ==
    LET k == ArrivedCount(row)
        n == Min(k, LONG_WINDOW)
    IN SubSeq(ArrivedValues(row.machine_id), k - n + 1, k)

\* C17: every feature row's long-window mean and deviation are those of the
\* most recent min(k, W) values of its machine, k being the number of the
\* machine's values in the frame up to that row; the short window holds the
\* one latest value; a deviation over a single value is 0, never NaN.
C17_WindowIsMostRecent ==
    features.done =>
       /\ Len(features.rows) = Len(readings)
       /\ \A j \in 1..Len(features.rows) :
             LET row == features.rows[j]
                 win == RecentValues(row)
                 n == Len(win)
             IN /\ n = Min(ArrivedCount(row), LONG_WINDOW)
                /\ row.mean_24h = Number(Sum(win), n)
                /\ row.std_24h =
                      IF n = 1 THEN Number(0, 1)
                      ELSE Number(n * Sum(Squares(win)) - Sum(win) * Sum(win),
                                  n * (n - 1))
                /\ row.mean_1h = Number(row.value, 1)
                /\ row.std_1h = Number(0, 1)
                /\ ~row.std_24h.nan /\ ~row.std_1h.nan /\ ~row.mean_24h.nan

\* a machine's reading past the window capacity, whose window no longer
\* holds the machine's first and largest value, in a frame of two machines
C17_Witness ==
    /\ features.done
    /\ \E j \in 1..Len(features.rows) :
          LET row == features.rows[j]
              vals == ArrivedValues(row.machine_id)
          IN /\ ArrivedCount(row) = LONG_WINDOW + 1
             /\ vals[1] = MaxValue
             /\ \A i \in 2..Len(vals) : vals[i] < MaxValue
             /\ row.mean_24h.den = LONG_WINDOW
             /\ row.mean_24h.num < LONG_WINDOW * MaxValue
             /\ row.std_24h.num > 0
    /\ \E i \in 1..Len(readings) : readings[i].machine_id # readings[1].machine_id
    /\ \E j \in 1..Len(features.rows) :
          /\ ArrivedCount(features.rows[j]) = 1
          /\ features.rows[j].std_24h = Number(0, 1)

\* C18: every feature row's long-window trend is the row's raw value minus
\* the long-window mean of its machine ending at that row, and it is 0 for a
\* machine's first reading.
C18_TrendIsValueMinusMean ==
    features.done =>
       \A j \in 1..Len(features.rows) :
          LET row == features.rows[j]
              win == RecentValues(row)
          IN /\ ~row.trend_24h.nan
             /\ row.trend_24h.den = Len(win)
             /\ row.trend_24h.num = Len(win) * row.value - Sum(win)
             /\ row.trend_24h.den = row.mean_24h.den
             /\ row.trend_24h.num
                   = row.mean_24h.den * row.value - row.mean_24h.num
             /\ (ArrivedCount(row) = 1 => row.trend_24h.num = 0)

\* a reading past the window capacity that lies below the mean of its
\* window, after a first reading whose trend is 0
C18_Witness ==
    /\ features.done
    /\ \E j \in 1..Len(features.rows) :
          /\ ArrivedCount(features.rows[j]) > LONG_WINDOW
          /\ features.rows[j].trend_24h.num < 0
    /\ \E j \in 1..Len(features.rows) :
          /\ ArrivedCount(features.rows[j]) = 1
          /\ features.rows[j].value > 0
          /\ features.rows[j].trend_24h.num = 0

---------------------------------------------------------------------------
\* Further properties of the scheduler (under SpecSched)

\* C12: a cycle whose collect_live_data call raised is over with
\* total_readings and last_collection as they were before it, and the
\* scheduler is in its loop, about to poll or to sleep.
C12_FailedCollectionKeepsState ==
    cycle.outcome = "collect_failed" =>
       /\ total_readings = cycle.before
       /\ last_collection = cycle.last_before
       /\ cycle.n = 0
       /\ sched_pc # "crashed"
       /\ (signals = 0 => sched_pc \in {"run_pending", "sleep"})

\* a failed collection after cycles that had advanced the counter and the
\* collection time, with the scheduler asleep until its next poll
C12_Witness ==
    /\ cycle.outcome = "collect_failed"
    /\ cycles_run >= 2
    /\ cycle.before > 0
    /\ cycle.last_before >= 0
    /\ total_readings = cycle.before
    /\ signals = 0
    /\ sched_pc = "sleep"

\* C13: a completed cycle whose counter was at or above the threshold has
\* sent a retrain request and left the counter at 0, and a cycle that fired
\* the reset has sent a request.
C13_ResetOnlyAfterRequestSent ==
    cycle.outcome = "completed" =>
       /\ (cycle.before + cycle.n >= RETRAIN_THRESHOLD) =>
             (cycle.posted = 1 /\ total_readings = 0)
       /\ (cycle.fired = 1 /\ total_readings = 0) => cycle.posted = 1

\* C14: a cycle whose POST failed is completed with the counter at 0 and the
\* scheduler still in its loop; no cycle calls trigger_retraining with the
\* counter below the threshold, and the cycle after a failed POST starts
\* from 0.
C14_FailedRequestStillResets ==
    /\ cycle.post = "failed" =>
          /\ cycle.outcome = "completed"
          /\ cycle.fired = 1
          /\ total_readings = 0
          /\ sched_pc # "crashed"
          /\ (signals = 0 => sched_pc \in {"run_pending", "sleep"})
    /\ cycle.fired = 1 => cycle.before + cycle.n >= RETRAIN_THRESHOLD
    /\ (cycle.prev_post = "failed" /\ cycle.outcome # "none") =>
          cycle.before = 0

\* the cycle after a failed POST collected readings and sent nothing
C14_Witness ==
    /\ cycle.prev_post = "failed"
    /\ cycle.outcome = "completed"
    /\ cycle.n > 0
    /\ cycle.fired = 0
    /\ cycle.post = "none"
    /\ total_readings = cycle.n
    /\ posts_sent = 1

\* C16: Ctrl+C during a cycle is not lost: once a cycle that was signalled
\* while it ran has processed and saved its readings and made its retrain
\* check, the scheduler has stopped.
C16_SignalFinishesCycleThenHalts ==
    (cycle.interrupted /\ cycle.outcome = "completed") => sched_pc = "stopped"

---------------------------------------------------------------------------
\* Further properties of the drift service

\* C15 (under SpecPeriodic): the periodic task is never ended by an error
\* raised in one of its cycles, and every failed cycle is followed by
\* another turn of the loop.
C15_LoopSurvivesErrors ==
    /\ [](periodic_pc # "dead")
    /\ \A k \in 0..MaxErrors :
          (periodic_pc = "spinning" /\ periodic_errors = k)
             ~> (periodic_pc = "spinning" /\ periodic_errors # k)

\* two cycles of the periodic task have failed and the task is in its loop
C15_Witness ==
    /\ periodic_pc = "spinning"
    /\ periodic_errors = 2
    /\ running = -1

\* C19: a call whose alert could not be written to the alert file still
\* returns its drift report, with detected = true.
C19_AlertFailureNotFatal ==
    last.path = "alert_failed" =>
       /\ last.resp.status = 200
       /\ last.resp.drift_detected

\* a scoring run returns in this step
ScoringRun == Returns /\ evidently_runs' = evidently_runs + 1

GaugesRecorded ==
    LET fd == current_drift_report'.results.feature_drifts
    IN /\ current_drift_report'.present
       /\ \A c \in DOMAIN fd : DRIFT_SCORE_GAUGE'[c] = fd[c]
       /\ FEATURES_DRIFTED_GAUGE'
            = Cardinality({c \in DOMAIN fd : fd[c] > DRIFT_THRESHOLD})

\* C20 as stated: every scoring run whose report has detected = true adds
\* one to the counter and one record to the alert file, a run whose report
\* has detected = false adds neither, and the gauges are set either way.
C20_OneCountOneAlertPerDetection ==
    [][ScoringRun =>
          /\ IF current_drift_report'.results.drift_detected
             THEN /\ DRIFT_DETECTED_COUNTER' = DRIFT_DETECTED_COUNTER + 1
                  /\ alert_file' = alert_file + 1
             ELSE /\ DRIFT_DETECTED_COUNTER' = DRIFT_DETECTED_COUNTER
                  /\ alert_file' = alert_file
          /\ GaugesRecorded]_vars

\* C20 amended: every scoring run whose report has detected = true adds one
\* to the counter, and one record to the alert file when the file can be
\* written; when it cannot, the count stays, no record is added and the call
\* answers with an error; a run whose report has detected = false adds
\* neither; the gauges are set in every case.
C20_OneCountAndAlertWhenSinkWritable ==
    [][ScoringRun =>
          /\ IF current_drift_report'.results.drift_detected
             THEN /\ DRIFT_DETECTED_COUNTER' = DRIFT_DETECTED_COUNTER + 1
                  /\ IF last'.path = "alert_failed"
                     THEN /\ alert_file' = alert_file
                          /\ last'.resp.status = 500
                     ELSE /\ alert_file' = alert_file + 1
                          /\ last'.resp.status = 200
                          /\ last'.resp.drift_detected
             ELSE /\ DRIFT_DETECTED_COUNTER' = DRIFT_DETECTED_COUNTER
                  /\ alert_file' = alert_file
                  /\ last'.resp.status = 200
                  /\ ~last'.resp.drift_detected
          /\ GaugesRecorded]_vars

\* a run without drift after a run that detected drift and wrote its alert:
\* one detection counted, one record written, the gauges at the new scores
C20_Witness ==
    /\ last.path = "scored"
    /\ ~last.resp.drift_detected
    /\ DOMAIN last.resp.feature_drifts = FeatureNames
    /\ DRIFT_DETECTED_COUNTER = 1
    /\ alert_file = 1
    /\ \A c \in FeatureNames : DRIFT_SCORE_GAUGE[c] = last.resp.feature_drifts[c]
    /\ FEATURES_DRIFTED_GAUGE = 0

---------------------------------------------------------------------------
\* Properties of load_recent_predictions (under SpecLoad)

\* the numbers of the lines of the log that parse
OkLines == {i \in 1..Len(log_file.lines) : log_file.lines[i] = "ok"}

\* C21: the window holds at most DRIFT_WINDOW_SIZE entries, all of them
\* entries of the log, in the order of the log; when every line that parses
\* has an input, it holds exactly the most recent DRIFT_WINDOW_SIZE of them
\* (all of them when there are fewer).
C21_WindowIsMostRecentEntries ==
    loaded.done =>
       /\ Len(loaded.rows) <= DRIFT_WINDOW_SIZE
       /\ \A j \in 1..Len(loaded.rows) : loaded.rows[j] \in OkLines
       /\ \A j \in 1..(Len(loaded.rows) - 1) :
             loaded.rows[j] < loaded.rows[j + 1]
       /\ (\A i \in 1..Len(log_file.lines) : log_file.lines[i] # "no_input") =>
             \A i \in OkLines :
                (\E j \in 1..Len(loaded.rows) : loaded.rows[j] = i)
                   <=> Cardinality({k \in OkLines : k >= i}) <= DRIFT_WINDOW_SIZE

\* a log with more entries than the window holds and a garbled line among
\* them: the window is full and the first entry of the log is not in it
C21_Witness ==
    /\ loaded.done
    /\ Cardinality(OkLines) > DRIFT_WINDOW_SIZE
    /\ \E i \in 1..Len(log_file.lines) : log_file.lines[i] = "garbled"
    /\ log_file.lines[1] = "ok"
    /\ Len(loaded.rows) = DRIFT_WINDOW_SIZE
    /\ loaded.rows[1] > 1
    /\ loaded.rows[Len(loaded.rows)] = Len(log_file.lines)

---------------------------------------------------------------------------
\* Properties of the drift service's state (under Spec)

\* C22: once reference_data is set, by startup_event or by the bootstrap
\* rule, no step of a calculate_drift call or of the periodic task replaces,
\* modifies or clears it.
C22_ReferenceSetOnce ==
    [][reference_data # NoFrame => reference_data' = reference_data]_vars

\* a batch other than the reference has been scored, twice running, against
\* the reference the first call of the behaviour had stored
C22_Witness ==
    /\ last.seq = 3
    /\ last.path = "scored"
    /\ evidently_runs = 2
    /\ last.data # reference_data
    /\ reference_data = bootstrap_batch
    /\ last.ref = reference_data

\* C23: no step of a calculate_drift call and no periodic turn that ends in
\* an error changes last_drift_check.  (The one assignment, line 388, follows
\* the periodic task's own scoring call, which the task never reaches.)
C23_LastCheckOwnedByPeriodicLoop ==
    [][(Returns \/ periodic_errors' # periodic_errors)
          => last_drift_check' = last_drift_check]_vars

\* an on-demand call has scored a batch and detected drift; last_drift_check
\* still has the value the module gave it
C23_Witness ==
    /\ last.path = "scored"
    /\ last.resp.drift_detected
    /\ current_drift_report.present
    /\ last_drift_check = 0

---------------------------------------------------------------------------
\* Properties of the cached report (under SpecCache)

\* the results a scoring run over the call's frames computes
ResultsOf(call) ==
    parse_drift_report(
        RunEvidently(call.ref, call.data, FeatureCols(call.ref, call.data),
                     evidently_shape),
        FeatureCols(call.ref, call.data))

\* C30: the cached report is absent until the first scoring run; a call that
\* completed scoring leaves its results as the cached report; a call that
\* bootstrapped the reference or was rejected (empty input, no common
\* feature, scorer error) leaves the cached report as it was.
C30_CacheIsLatestScoringResult ==
    [][/\ (evidently_runs = 0 => ~current_drift_report.present)
       /\ Returns =>
             IF last'.path \in {"scored", "alert_failed"}
             THEN current_drift_report'
                     = [present |-> TRUE, results |-> ResultsOf(last')]
             ELSE /\ last'.path \in {"empty", "bootstrap", "no_common",
                                      "scorer_error"}
                  /\ current_drift_report' = current_drift_report
       /\ ~Returns => current_drift_report' = current_drift_report]_vars

\* the cache holds the results of the second call, which detected nothing,
\* after a third call, whose batch drifted, ended in a scorer error
C30_Witness ==
    /\ last.seq = 3
    /\ last.path = "scorer_error"
    /\ last.data.level # last.ref.level
    /\ current_drift_report.present
    /\ ~current_drift_report.results.drift_detected
    /\ evidently_runs = 1

---------------------------------------------------------------------------
\* Properties of the periodic task (under SpecPeriodic)

\* C27: every turn of the periodic task starts by suspending on
\* asyncio.sleep, which gives the event loop back to the request handlers: a
\* turn never leaves the task holding the loop with an error printed.
C27_EachTurnSuspendsFirst ==
    [][periodic_pc' # periodic_pc =>
          /\ periodic_pc' \in {"created", "sleeping"}
          /\ running' = 0
          /\ periodic_errors' = periodic_errors]_vars

---------------------------------------------------------------------------
\* Properties of the retrain trigger (under SpecSched)

\* C24: retraining is triggered by 1000 readings or by 24 hours, whichever
\* comes first: a cycle that completes 24 hours or more after the scheduler
\* started (the scheduler starts before poll PollsPerHour) has been preceded
\* or accompanied by a call of trigger_retraining.
C24_RetrainsAfterADay ==
    (/\ cycle.outcome = "completed"
     /\ cycle_end >= (PollsPerHour - 1) + RETRAIN_HOURS * PollsPerHour)
       => trigger_calls >= 1

\* collect_hourly_data has returned: the cycle ended at one of its returns
CycleReturned ==
    cycle.outcome \in {"completed", "collect_failed", "prepare_failed"}

\* C29 as stated: whenever collect_hourly_data has returned, total_readings
\* is at least 0 and below the retrain threshold.
C29_CounterBelowThresholdWhenIdle ==
    CycleReturned =>
       (total_readings >= 0 /\ total_readings < RETRAIN_THRESHOLD)

\* C29 amended: total_readings is never negative; after a cycle that reached
\* its retrain check it is below the threshold; after a cycle that ended in
\* a caught exception it is what the cycle found, plus the readings of the
\* cycle when they had been saved, whether or not that is below the threshold.
C29_CounterBelowThresholdAfterCheck ==
    /\ total_readings >= 0
    /\ cycle.outcome = "completed" => total_readings < RETRAIN_THRESHOLD
    /\ cycle.outcome = "collect_failed" => total_readings = cycle.before
    /\ cycle.outcome = "prepare_failed" =>
          total_readings = cycle.before + cycle.n

\* a cycle found the counter at or above the threshold, where a cycle that
\* failed after counting had left it, reached its check and reset it
C29_Witness ==
    /\ cycle.outcome = "completed"
    /\ cycle.before >= RETRAIN_THRESHOLD
    /\ cycle.fired = 1
    /\ total_readings = 0

---------------------------------------------------------------------------
\* Properties of one collect_live_data call and the split that follows it
\* (under SpecCollect)

\* C25: consecutive rounds start at least interval_seconds apart, and the
\* call collects at most the "Expected samples" it printed:
\* len(locations) * (duration // interval) readings.
C25_RoundsAnIntervalApart ==
    /\ prev_start >= 0 => collection_start - prev_start >= IntervalTicks
    /\ Len(all_readings)
          <= Cardinality(Locations) * (DurationTicks \div IntervalTicks)

\* C26: the training and the test set partition the rows of the saved frame,
\* the training set being its first floor(0.8 * n) rows, and no training row
\* has a later event timestamp than any test row.
C26_SplitIsTemporal ==
    split.done =>
       /\ split.train \o split.test = returned_df.rows
       /\ Len(split.train) = (4 * Len(returned_df.rows)) \div 5
       /\ \A i \in 1..Len(split.train), j \in 1..Len(split.test) :
             split.train[i].event_timestamp <= split.test[j].event_timestamp

---------------------------------------------------------------------------
\* Properties of readings processed over two calls (under SpecBatches)

\* two numbers are the same value
SameNumber(a, b) ==
    /\ a.nan = b.nan
    /\ a.num * b.den = b.num * a.den

\* the feature row of the frame's latest reading
LatestRow(rows) ==
    CHOOSE r \in {rows[i] : i \in 1..Len(rows)} :
       \A i \in 1..Len(rows) : rows[i].event_timestamp <= r.event_timestamp

\* C28: the feature row of the latest reading is the same whether the
\* readings were ingested in one collect_live_data call or over two: the
\* rolling mean, deviation and trend do not depend on where the sequence
\* was cut.
C28_BatchCutIndependent ==
    (features.done /\ batch_features.done) =>
       LET one == LatestRow(features.rows)
           two == LatestRow(batch_features.rows)
       IN /\ one.machine_id = two.machine_id
          /\ one.value = two.value
          /\ SameNumber(one.mean_24h, two.mean_24h)
          /\ SameNumber(one.std_24h, two.std_24h)
          /\ SameNumber(one.trend_24h, two.trend_24h)

=============================================================================
